---- MODULE Spec2Model ----
(***************************************************************************)
(* A model of the windy editor's round-trip engine: parseHTMLToSchema,     *)
(* schemaToHTML and the Editor component's structured edits.               *)
(*                                                                         *)
(* Strings are sequences of one-character strings, so that escaping,       *)
(* name validation and re-parsing are computed character by character.     *)
(* The repository holds two copies of the utils module:                    *)
(*   src/src/utils/schemaParser.js  (copy "schemaParser.js")               *)
(*   src/unnamed/part_001           (copy "part_001")                      *)
(* They agree on parseHTMLToSchema and differ in schemaToHTML; the         *)
(* variable copy says which one a run is linked against.                   *)
(*                                                                         *)
(* Six specifications:                                                     *)
(*   SpecCore   schemaToHTML and parseHTMLToSchema applied to bounded      *)
(*              collections and markups, each result fed to the other;     *)
(*   SpecExt    parseHTMLToSchema applied to the markup of bounded trees;  *)
(*   Spec       the Editor component: its state, effect and handlers;      *)
(*   SpecFields generateFormFields applied to one record;                  *)
(*   SpecLive   Spec with the effect on htmlCode weakly fair;              *)
(*   SpecEdits  the structured edits applied to an extracted collection    *)
(*              with no re-extraction in between.                          *)
(***************************************************************************)
EXTENDS Integers, Sequences, FiniteSets, TLC

VARIABLES copy, argKind, schema, htmlCode, doc, reparsed, pc, outcome, captured, edits, fields, event

vars == <<copy, argKind, schema, htmlCode, doc, reparsed, pc, outcome, captured, edits, fields, event>>

Copies == {"schemaParser.js", "part_001"}

(* the event last handled: the handler, the id it was given and the form
   field it was given *)
NoEvent == [op |-> "none", id |-> <<>>, field |-> <<>>]

EventOf(op, id, field) == [op |-> op, id |-> id, field |-> field]

----------------------------------------------------------------------------
(* Characters and strings *)

LowerAlpha ==
  <<"a","b","c","d","e","f","g","h","i","j","k","l","m",
    "n","o","p","q","r","s","t","u","v","w","x","y","z">>

UpperAlpha ==
  <<"A","B","C","D","E","F","G","H","I","J","K","L","M",
    "N","O","P","Q","R","S","T","U","V","W","X","Y","Z">>

Digits == <<"0","1","2","3","4","5","6","7","8","9">>

Range(s) == {s[i] : i \in DOMAIN s}

IsLower(c) == c \in Range(LowerAlpha)
IsUpper(c) == c \in Range(UpperAlpha)
IsAlpha(c) == IsLower(c) \/ IsUpper(c)
IsDigit(c) == c \in Range(Digits)
IsSpace(c) == c \in {" ", "\n", "\t"}

IndexIn(s, c) == CHOOSE i \in DOMAIN s : s[i] = c

toLowerCaseChar(c) == IF IsUpper(c) THEN LowerAlpha[IndexIn(UpperAlpha, c)] ELSE c
toUpperCaseChar(c) == IF IsLower(c) THEN UpperAlpha[IndexIn(LowerAlpha, c)] ELSE c

toLowerCase(s) == [i \in DOMAIN s |-> toLowerCaseChar(s[i])]
toUpperCase(s) == [i \in DOMAIN s |-> toUpperCaseChar(s[i])]

(* UTF-16 code units of the characters the model uses, for Array.sort. *)
CodeUnit(c) ==
  IF IsUpper(c) THEN 64 + IndexIn(UpperAlpha, c)
  ELSE IF IsLower(c) THEN 96 + IndexIn(LowerAlpha, c)
  ELSE IF IsDigit(c) THEN 47 + IndexIn(Digits, c)
  ELSE CASE c = "\t" -> 9 [] c = "\n" -> 10 [] c = " " -> 32
         [] c = "\"" -> 34 [] c = "#" -> 35 [] c = "&" -> 38
         [] c = "'" -> 39 [] c = "-" -> 45 [] c = "/" -> 47
         [] c = ";" -> 59 [] c = "<" -> 60 [] c = "=" -> 61
         [] c = ">" -> 62 [] OTHER -> 127

(* Array.prototype.join *)
RECURSIVE join(_, _)
join(ss, sep) ==
  IF ss = <<>> THEN <<>>
  ELSE IF Len(ss) = 1 THEN ss[1]
  ELSE ss[1] \o sep \o join(Tail(ss), sep)

(* String.prototype.replace(/c/g, rep) for a one-character pattern *)
RECURSIVE replaceAll(_, _, _)
replaceAll(s, c, rep) ==
  IF s = <<>> THEN <<>>
  ELSE (IF Head(s) = c THEN rep ELSE <<Head(s)>>) \o replaceAll(Tail(s), c, rep)

----------------------------------------------------------------------------
(* schemaToHTML, copy src/src/utils/schemaParser.js *)

(* a lookup that falls back on the first childless record when nothing matches *)
findOrLeaf(elements, wanted) ==
  IF \E i \in DOMAIN elements : elements[i].id = wanted
  THEN CHOOSE i \in DOMAIN elements :
         /\ elements[i].id = wanted
         /\ \A j \in 1..(i - 1) : elements[j].id # wanted
  ELSE IF \E i \in DOMAIN elements : elements[i].children = <<>>
  THEN CHOOSE i \in DOMAIN elements :
         /\ elements[i].children = <<>>
         /\ \A j \in 1..(i - 1) : elements[j].children # <<>>
  ELSE 0

(* elements.find(el => el.id === elementId): the first match, 0 for undefined *)
find(elements, elementId) ==
  IF \E i \in DOMAIN elements : elements[i].id = elementId
  THEN CHOOSE i \in DOMAIN elements :
         /\ elements[i].id = elementId
         /\ \A j \in 1..(i - 1) : elements[j].id # elementId
  ELSE 0

RECURSIVE buildElement(_, _)
buildElement(elements, elementId) ==
  LET i == find(elements, elementId) IN
  IF i = 0 THEN <<>>
  ELSE
    LET element == elements[i]
        classAttr ==
          IF Len(element.classes) > 0
          THEN << <<"c","l","a","s","s","=","\"">>
                  \o join(element.classes, <<" ">>) \o <<"\"">> >>
          ELSE <<>>
        attrs == classAttr \o
          [k \in DOMAIN element.attributes |->
             element.attributes[k].name \o <<"=","\"">>
               \o element.attributes[k].value \o <<"\"">>]
        attrString == IF Len(attrs) > 0 THEN <<" ">> \o join(attrs, <<" ">>) ELSE <<>>
        childrenHTML ==
          join([k \in DOMAIN element.children |->
                  buildElement(elements, element.children[k])], <<>>)
        textContent == element.text
    IN <<"<">> \o element.tag \o attrString \o <<">">> \o textContent
         \o childrenHTML \o <<"<","/">> \o element.tag \o <<">">>

(* the ids listed in some record's children *)
childIds(elements) ==
  UNION {Range(elements[i].children) : i \in DOMAIN elements}

(* every record taken as a root *)
allElements(elements) == elements

rootElements(elements) ==
  SelectSeq(elements, LAMBDA el : el.id \notin childIds(elements))

schemaToHTML(elements) ==
  IF Len(elements) = 0 THEN <<>>
  ELSE LET roots == rootElements(elements) IN
       join([r \in DOMAIN roots |-> buildElement(elements, roots[r].id)], <<"\n">>)

----------------------------------------------------------------------------
(* schemaToHTML, copy src/unnamed/part_001 *)

escapeHTML(str) ==
  IF str = <<>> THEN <<>>
  ELSE replaceAll(
         replaceAll(
           replaceAll(
             replaceAll(
               replaceAll(str, "&", <<"&","a","m","p",";">>),
               "<", <<"&","l","t",";">>),
             ">", <<"&","g","t",";">>),
           "\"", <<"&","q","u","o","t",";">>),
         "'", <<"&","#","0","3","9",";">>)

(* /^[a-z][a-z0-9\-]*$/i.test(name) *)
isValidTagName(tag) ==
  /\ Len(tag) >= 1
  /\ IsAlpha(tag[1])
  /\ \A i \in 2..Len(tag) : IsAlpha(tag[i]) \/ IsDigit(tag[i]) \/ tag[i] = "-"

isValidAttrName(key) ==
  /\ Len(key) >= 1
  /\ IsAlpha(key[1])
  /\ \A i \in 2..Len(key) : IsAlpha(key[i]) \/ IsDigit(key[i]) \/ key[i] = "-"

RECURSIVE buildElementEsc(_, _)
buildElementEsc(elements, elementId) ==
  LET i == find(elements, elementId) IN
  IF i = 0 THEN <<>>
  ELSE
    LET element == elements[i] IN
    IF ~isValidTagName(element.tag) THEN <<>>
    ELSE
      LET escapedClasses ==
            join([k \in DOMAIN element.classes |-> escapeHTML(element.classes[k])],
                 <<" ">>)
          classAttr ==
            IF Len(element.classes) > 0
            THEN << <<"c","l","a","s","s","=","\"">> \o escapedClasses \o <<"\"">> >>
            ELSE <<>>
          safe == SelectSeq(element.attributes, LAMBDA a : isValidAttrName(a.name))
          attrs == classAttr \o
            [k \in DOMAIN safe |->
               escapeHTML(safe[k].name) \o <<"=","\"">>
                 \o escapeHTML(safe[k].value) \o <<"\"">>]
          attrString ==
            IF Len(attrs) > 0 THEN <<" ">> \o join(attrs, <<" ">>) ELSE <<>>
          childrenHTML ==
            join([k \in DOMAIN element.children |->
                    buildElementEsc(elements, element.children[k])], <<>>)
          textContent == escapeHTML(element.text)
      IN <<"<">> \o element.tag \o attrString \o <<">">> \o textContent
           \o childrenHTML \o <<"<","/">> \o element.tag \o <<">">>

schemaToHTMLEsc(elements) ==
  IF Len(elements) = 0 THEN <<>>
  ELSE LET roots == rootElements(elements) IN
       join([r \in DOMAIN roots |-> buildElementEsc(elements, roots[r].id)], <<"\n">>)

(* the copy a run is linked against *)
schemaToHTMLOf(c, elements) ==
  IF c = "part_001" THEN schemaToHTMLEsc(elements) ELSE schemaToHTML(elements)

----------------------------------------------------------------------------
(* DOMParser.parseFromString(html, 'text/html'): the tokenizer.            *)
(* It follows the HTML standard's tokenizer states for data, tags,         *)
(* attributes and character references, one character per step.  The       *)
(* strings the model feeds it hold no "!" or "?" (comments, doctypes), no  *)
(* hexadecimal reference, and can spell no named reference other than      *)
(* amp, lt, gt, quot and apos.                                             *)

CharToken(c) == [type |-> "char", name |-> <<>>, attrs |-> <<>>, c |-> c]

CharTokens(cs) == [k \in DOMAIN cs |-> CharToken(cs[k])]

NewTag(kind) ==
  [kind |-> kind, name |-> <<>>, attrs |-> <<>>,
   an |-> <<>>, av |-> <<>>, open |-> FALSE]

(* the attribute in progress joins the tag unless its name is already there *)
CommitAttr(tag) ==
  IF ~tag.open THEN tag
  ELSE [tag EXCEPT
          !.attrs = IF \E k \in DOMAIN tag.attrs : tag.attrs[k].name = tag.an
                    THEN tag.attrs
                    ELSE Append(tag.attrs, [name |-> tag.an, value |-> tag.av]),
          !.an = <<>>, !.av = <<>>, !.open = FALSE]

StartAttr(tag, first) ==
  [CommitAttr(tag) EXCEPT !.an = first, !.open = TRUE]

TagToken(tag) ==
  LET t == CommitAttr(tag) IN
  [type |-> t.kind, name |-> t.name,
   attrs |-> IF t.kind = "start" THEN t.attrs ELSE <<>>, c |-> ""]

(* the named references the model's strings can spell; legacy ones also
   match without the closing semicolon *)
NamedRefs ==
  << [name |-> <<"a","m","p">>,     char |-> "&",  legacy |-> TRUE],
     [name |-> <<"l","t">>,         char |-> "<",  legacy |-> TRUE],
     [name |-> <<"g","t">>,         char |-> ">",  legacy |-> TRUE],
     [name |-> <<"q","u","o","t">>, char |-> "\"", legacy |-> TRUE],
     [name |-> <<"a","p","o","s">>, char |-> "'",  legacy |-> FALSE] >>

IsPrefix(w, s) == Len(w) <= Len(s) /\ \A k \in DOMAIN w : s[k] = w[k]

RefNamed(buf) == {k \in DOMAIN NamedRefs : NamedRefs[k].name = buf}
RefPrefixed(buf) == {k \in DOMAIN NamedRefs : IsPrefix(buf, NamedRefs[k].name)}

ModelChars ==
  Range(LowerAlpha) \cup Range(UpperAlpha) \cup Range(Digits) \cup
  {"\t", "\n", " ", "\"", "#", "&", "'", "-", "/", ";", "<", "=", ">"}

(* a character outside the model's alphabet *)
OtherChar == "~"

fromCharCode(n) ==
  IF \E c \in ModelChars : CodeUnit(c) = n
  THEN CHOOSE c \in ModelChars : CodeUnit(c) = n
  ELSE OtherChar

RECURSIVE DecimalValue(_, _)
DecimalValue(ds, acc) ==
  IF ds = <<>> THEN acc
  ELSE DecimalValue(Tail(ds), acc * 10 + (IndexIn(Digits, Head(ds)) - 1))

AttrValueStates == {"attrvaluedq", "attrvaluesq", "attrvalueunq"}

(* characters produced by a character reference go to the value of the
   attribute in progress or to the output, by the state to return to *)
FlushChars(z, cs) ==
  IF z.ret \in AttrValueStates
  THEN [z EXCEPT !.tag.av = @ \o cs, !.st = z.ret, !.buf = <<>>]
  ELSE [z EXCEPT !.out = @ \o CharTokens(cs), !.st = z.ret, !.buf = <<>>]

EmitTag(z) == [z EXCEPT !.out = Append(@, TagToken(z.tag)), !.st = "data"]

RECURSIVE TokStep(_, _)
TokStep(z, c) ==
  LET st == z.st
      Go(s2) == [z EXCEPT !.st = s2]
  IN
  CASE st = "data" ->
         IF c = "&" THEN [z EXCEPT !.st = "charref", !.ret = "data", !.buf = <<>>]
         ELSE IF c = "<" THEN Go("tagopen")
         ELSE [z EXCEPT !.out = Append(@, CharToken(c))]
    [] st = "tagopen" ->
         IF IsAlpha(c) THEN TokStep([z EXCEPT !.st = "tagname", !.tag = NewTag("start")], c)
         ELSE IF c = "/" THEN Go("endtagopen")
         ELSE TokStep([z EXCEPT !.st = "data", !.out = Append(@, CharToken("<"))], c)
    [] st = "endtagopen" ->
         IF IsAlpha(c) THEN TokStep([z EXCEPT !.st = "tagname", !.tag = NewTag("end")], c)
         ELSE IF c = ">" THEN Go("data")
         ELSE TokStep(Go("boguscomment"), c)
    [] st = "boguscomment" -> IF c = ">" THEN Go("data") ELSE z
    [] st = "tagname" ->
         IF IsSpace(c) THEN Go("beforeattrname")
         ELSE IF c = "/" THEN Go("selfclosing")
         ELSE IF c = ">" THEN EmitTag(z)
         ELSE [z EXCEPT !.tag.name = Append(@, toLowerCaseChar(c))]
    [] st = "beforeattrname" ->
         IF IsSpace(c) THEN z
         ELSE IF c = "/" \/ c = ">" THEN TokStep(Go("afterattrname"), c)
         ELSE IF c = "="
         THEN [z EXCEPT !.st = "attrname", !.tag = StartAttr(z.tag, <<"=">>)]
         ELSE TokStep([z EXCEPT !.st = "attrname", !.tag = StartAttr(z.tag, <<>>)], c)
    [] st = "attrname" ->
         IF IsSpace(c) \/ c = "/" \/ c = ">" THEN TokStep(Go("afterattrname"), c)
         ELSE IF c = "=" THEN Go("beforeattrvalue")
         ELSE [z EXCEPT !.tag.an = Append(@, toLowerCaseChar(c))]
    [] st = "afterattrname" ->
         IF IsSpace(c) THEN z
         ELSE IF c = "/" THEN Go("selfclosing")
         ELSE IF c = "=" THEN Go("beforeattrvalue")
         ELSE IF c = ">" THEN EmitTag(z)
         ELSE TokStep([z EXCEPT !.st = "attrname", !.tag = StartAttr(z.tag, <<>>)], c)
    [] st = "beforeattrvalue" ->
         IF IsSpace(c) THEN z
         ELSE IF c = "\"" THEN Go("attrvaluedq")
         ELSE IF c = "'" THEN Go("attrvaluesq")
         ELSE IF c = ">" THEN EmitTag(z)
         ELSE TokStep(Go("attrvalueunq"), c)
    [] st = "attrvaluedq" \/ st = "attrvaluesq" ->
         IF c = (IF st = "attrvaluedq" THEN "\"" ELSE "'") THEN Go("afterattrvalue")
         ELSE IF c = "&" THEN [z EXCEPT !.st = "charref", !.ret = st, !.buf = <<>>]
         ELSE [z EXCEPT !.tag.av = Append(@, c)]
    [] st = "attrvalueunq" ->
         IF IsSpace(c) THEN Go("beforeattrname")
         ELSE IF c = "&" THEN [z EXCEPT !.st = "charref", !.ret = st, !.buf = <<>>]
         ELSE IF c = ">" THEN EmitTag(z)
         ELSE [z EXCEPT !.tag.av = Append(@, c)]
    [] st = "afterattrvalue" ->
         IF IsSpace(c) THEN Go("beforeattrname")
         ELSE IF c = "/" THEN Go("selfclosing")
         ELSE IF c = ">" THEN EmitTag(z)
         ELSE TokStep(Go("beforeattrname"), c)
    [] st = "selfclosing" ->
         IF c = ">" THEN EmitTag(z) ELSE TokStep(Go("beforeattrname"), c)
    [] st = "charref" ->
         IF IsAlpha(c) \/ IsDigit(c) THEN TokStep(Go("namedref"), c)
         ELSE IF c = "#" THEN Go("numref")
         ELSE TokStep(FlushChars(z, <<"&">>), c)
    [] st = "namedref" ->
         LET hit == RefNamed(z.buf) IN
         IF hit # {}
         THEN LET r == NamedRefs[CHOOSE k \in hit : TRUE]
                  blocked == z.ret \in AttrValueStates
                               /\ (c = "=" \/ IsAlpha(c) \/ IsDigit(c))
              IN IF c = ";" THEN FlushChars(z, <<r.char>>)
                 ELSE IF r.legacy /\ ~blocked THEN TokStep(FlushChars(z, <<r.char>>), c)
                 ELSE TokStep(FlushChars(z, <<"&">> \o z.buf), c)
         ELSE IF RefPrefixed(Append(z.buf, c)) # {} THEN [z EXCEPT !.buf = Append(@, c)]
         ELSE TokStep(FlushChars(z, <<"&">> \o z.buf), c)
    [] st = "numref" ->
         IF IsDigit(c) THEN [z EXCEPT !.buf = Append(@, c)]
         ELSE IF z.buf = <<>> THEN TokStep(FlushChars(z, <<"&", "#">>), c)
         ELSE IF c = ";" THEN FlushChars(z, <<fromCharCode(DecimalValue(z.buf, 0))>>)
         ELSE TokStep(FlushChars(z, <<fromCharCode(DecimalValue(z.buf, 0))>>), c)

(* end of input: an unfinished tag is dropped, pending characters are kept *)
TokEnd(z) ==
  CASE z.st = "tagopen" -> z.out \o CharTokens(<<"<">>)
    [] z.st = "endtagopen" -> z.out \o CharTokens(<<"<", "/">>)
    [] z.st = "charref" -> FlushChars(z, <<"&">>).out
    [] z.st = "namedref" ->
         LET hit == RefNamed(z.buf) IN
         IF hit # {} /\ NamedRefs[CHOOSE k \in hit : TRUE].legacy
         THEN FlushChars(z, <<NamedRefs[CHOOSE k \in hit : TRUE].char>>).out
         ELSE FlushChars(z, <<"&">> \o z.buf).out
    [] z.st = "numref" ->
         IF z.buf = <<>> THEN FlushChars(z, <<"&", "#">>).out
         ELSE FlushChars(z, <<fromCharCode(DecimalValue(z.buf, 0))>>).out
    [] OTHER -> z.out

(* the steps over s[lo..hi], split in halves to keep the evaluation shallow
   (the test on left makes TLC evaluate the left half before the right) *)
RECURSIVE TokFold(_, _, _, _)
TokFold(z, s, lo, hi) ==
  IF lo > hi THEN z
  ELSE IF lo = hi THEN TokStep(z, s[lo])
  ELSE LET mid == (lo + hi) \div 2
           left == TokFold(z, s, lo, mid)
       IN IF left.st = "" THEN left ELSE TokFold(left, s, mid + 1, hi)

tokenize(html) ==
  TokEnd(TokFold([st |-> "data", ret |-> "data", buf |-> <<>>,
                  tag |-> NewTag("start"), out |-> <<>>],
                 html, 1, Len(html)))

----------------------------------------------------------------------------
(* DOMParser.parseFromString: tree construction ("in body" insertion mode). *)
(* A document is [body, nodes]: body lists the body's child nodes, nodes is *)
(* the table of nodes, a node names its parent (0: the body) and its child  *)
(* nodes.  Modelled element kinds: the block containers below, li, and      *)
(* ordinary elements (span and unknown names).  Tags with further parsing   *)
(* rules of their own (p, a, b, table, script, br, ...) are outside the     *)
(* markup the model parses.                                                 *)

TagLi == <<"l","i">>
TagUl == <<"u","l">>
TagOl == <<"o","l">>
TagDiv == <<"d","i","v">>
TagSpan == <<"s","p","a","n">>
TagNav == <<"n","a","v">>
TagMenu == <<"m","e","n","u">>
TagA == <<"a">>
TagButton == <<"b","u","t","t","o","n">>
TagArticle == <<"a","r","t","i","c","l","e">>
TagSection == <<"s","e","c","t","i","o","n">>

TagBr == <<"b","r">>
TagImg == <<"i","m","g">>

(* elements that never hold content: their start tag is not left open *)
VoidTags == {TagBr, TagImg}

BlockTags == {TagDiv, TagUl, TagOl, TagNav, TagMenu, TagArticle, TagSection}
SpecialTags == BlockTags \cup {TagLi}

ELEMENT_NODE == "ELEMENT_NODE"
TEXT_NODE == "TEXT_NODE"

ElementNode(name, attrs, parent) ==
  [nodeType |-> ELEMENT_NODE, tagName |-> toUpperCase(name), attributes |-> attrs,
   data |-> <<>>, parent |-> parent, childNodes |-> <<>>]

TextNode(data, parent) ==
  [nodeType |-> TEXT_NODE, tagName |-> <<>>, attributes |-> <<>>,
   data |-> data, parent |-> parent, childNodes |-> <<>>]

EmptyDocument == [body |-> <<>>, nodes |-> <<>>]

localName(d, n) == toLowerCase(d.nodes[n].tagName)

ChildNodesOf(d, p) == IF p = 0 THEN d.body ELSE d.nodes[p].childNodes

(* append a new node under p (0: the body) *)
AppendNode(d, p, node) ==
  LET n == Len(d.nodes) + 1
      nodes1 == Append(d.nodes, node)
  IN IF p = 0 THEN [body |-> Append(d.body, n), nodes |-> nodes1]
     ELSE [body |-> d.body,
           nodes |-> [nodes1 EXCEPT ![p].childNodes = Append(@, n)]]

Top(stack) == IF stack = <<>> THEN 0 ELSE stack[Len(stack)]

(* a character goes into the last text node of the current node, or a new one *)
InsertChar(b, c) ==
  LET p == Top(b.stack)
      kids == ChildNodesOf(b.d, p)
      last == IF kids = <<>> THEN 0 ELSE kids[Len(kids)]
  IN IF ~b.started /\ IsSpace(c) THEN b
     ELSE IF last # 0 /\ b.d.nodes[last].nodeType = TEXT_NODE
     THEN [b EXCEPT !.d.nodes[last].data = Append(@, c), !.started = TRUE]
     ELSE [b EXCEPT !.d = AppendNode(b.d, p, TextNode(<<c>>, p)), !.started = TRUE]

(* a start tag "li" closes an open li, looking down the stack past ordinary
   elements and div, and no further than another special element *)
RECURSIVE CloseLi(_, _)
CloseLi(b, k) ==
  IF k = 0 THEN b
  ELSE LET name == localName(b.d, b.stack[k]) IN
       IF name = TagLi THEN [b EXCEPT !.stack = SubSeq(b.stack, 1, k - 1)]
       ELSE IF name \in SpecialTags /\ name # TagDiv THEN b
       ELSE CloseLi(b, k - 1)

InsertElement(b, tok) ==
  LET b1 == IF tok.name = TagLi THEN CloseLi(b, Len(b.stack)) ELSE b
      p == Top(b1.stack)
      d1 == AppendNode(b1.d, p, ElementNode(tok.name, tok.attrs, p))
  IN [d |-> d1,
      stack |-> IF tok.name \in VoidTags THEN b1.stack
                ELSE Append(b1.stack, Len(d1.nodes)),
      started |-> TRUE]

(* the topmost stack position holding an element called name, 0 if none *)
OpenIndex(b, name) ==
  LET hits == {k \in DOMAIN b.stack : localName(b.d, b.stack[k]) = name} IN
  IF hits = {} THEN 0 ELSE CHOOSE k \in hits : \A j \in hits : j <= k

PopThrough(b, k) == [b EXCEPT !.stack = SubSeq(b.stack, 1, k - 1)]

CloseElement(b, tok) ==
  LET k == OpenIndex(b, tok.name) IN
  IF tok.name = TagBr
  THEN (* an end tag "br" is treated as the start tag *)
       InsertElement(b, tok)
  ELSE IF k = 0 THEN b
  ELSE IF tok.name \in BlockTags THEN PopThrough(b, k)
  ELSE IF tok.name = TagLi
  THEN (* list item scope ends at ul and ol *)
       IF \E j \in (k + 1)..Len(b.stack) : localName(b.d, b.stack[j]) \in {TagUl, TagOl}
       THEN b ELSE PopThrough(b, k)
  ELSE (* any other end tag: given up at a special element above the match *)
       IF \E j \in (k + 1)..Len(b.stack) : localName(b.d, b.stack[j]) \in SpecialTags
       THEN b ELSE PopThrough(b, k)

TreeStep(b, tok) ==
  CASE tok.type = "char" -> InsertChar(b, tok.c)
    [] tok.type = "start" -> InsertElement(b, tok)
    [] OTHER -> CloseElement(b, tok)

RECURSIVE BuildTree(_, _, _, _)
BuildTree(b, tokens, lo, hi) ==
  IF lo > hi THEN b
  ELSE IF lo = hi THEN TreeStep(b, tokens[lo])
  ELSE LET mid == (lo + hi) \div 2
           left == BuildTree(b, tokens, lo, mid)
       IN IF left.stack = <<0>> THEN left ELSE BuildTree(left, tokens, mid + 1, hi)

parseFromString(html) ==
  LET tokens == tokenize(html) IN
  BuildTree([d |-> EmptyDocument, stack |-> <<>>, started |-> FALSE],
            tokens, 1, Len(tokens)).d

----------------------------------------------------------------------------
(* DOM accessors used by the extractor *)

(* String.prototype.trim *)
RECURSIVE trimStart(_)
trimStart(s) == IF s # <<>> /\ IsSpace(Head(s)) THEN trimStart(Tail(s)) ELSE s

RECURSIVE trimEnd(_)
trimEnd(s) ==
  IF s # <<>> /\ IsSpace(s[Len(s)]) THEN trimEnd(SubSeq(s, 1, Len(s) - 1)) ELSE s

trim(s) == trimEnd(trimStart(s))

(* split on ASCII whitespace, dropping empty tokens *)
RECURSIVE splitOnSpace(_, _, _)
splitOnSpace(s, cur, out) ==
  IF s = <<>> THEN (IF cur = <<>> THEN out ELSE Append(out, cur))
  ELSE IF IsSpace(Head(s))
  THEN splitOnSpace(Tail(s), <<>>, IF cur = <<>> THEN out ELSE Append(out, cur))
  ELSE splitOnSpace(Tail(s), Append(cur, Head(s)), out)

RECURSIVE unique(_, _)
unique(ts, out) ==
  IF ts = <<>> THEN out
  ELSE unique(Tail(ts), IF Head(ts) \in Range(out) THEN out ELSE Append(out, Head(ts)))

AttrClass == <<"c","l","a","s","s">>

getAttribute(node, name) ==
  LET hits == {k \in DOMAIN node.attributes : node.attributes[k].name = name} IN
  IF hits = {} THEN <<>> ELSE node.attributes[CHOOSE k \in hits : TRUE].value

(* node.classList: the class attribute's tokens, each once *)
classList(node) == unique(splitOnSpace(getAttribute(node, AttrClass), <<>>, <<>>), <<>>)

(* node.children: the child nodes that are elements *)
children(d, p) ==
  SelectSeq(ChildNodesOf(d, p), LAMBDA n : d.nodes[n].nodeType = ELEMENT_NODE)

(* comparison of strings by code units, as Array.prototype.sort does *)
RECURSIVE StrLess(_, _)
StrLess(a, b) ==
  IF b = <<>> THEN FALSE
  ELSE IF a = <<>> THEN TRUE
  ELSE IF CodeUnit(Head(a)) # CodeUnit(Head(b)) THEN CodeUnit(Head(a)) < CodeUnit(Head(b))
  ELSE StrLess(Tail(a), Tail(b))

(* the tokens left in the order of the attribute *)
unsorted(ss) == ss

RECURSIVE insertSorted(_, _)
insertSorted(sorted, x) ==
  IF sorted = <<>> THEN <<x>>
  ELSE IF StrLess(x, Head(sorted)) THEN <<x>> \o sorted
  ELSE <<Head(sorted)>> \o insertSorted(Tail(sorted), x)

RECURSIVE sort(_)
sort(ss) == IF ss = <<>> THEN <<>> ELSE insertSorted(sort(Tail(ss)), Head(ss))

----------------------------------------------------------------------------
(* parseHTMLToSchema (the same in both copies) *)

RepeatableTags == {TagSpan, TagA, TagButton, TagDiv, TagArticle, TagSection}
ListParentTags == {TagUl, TagOl, TagNav, TagMenu}
TagBody == <<"b","o","d","y">>

(* the tag of node.parentElement; a top-level element's parent is the body *)
parentTagName(d, n) ==
  IF d.nodes[n].parent = 0 THEN toUpperCase(TagBody)
  ELSE d.nodes[d.nodes[n].parent].tagName

isRepeatableElement(d, n) ==
  LET node == d.nodes[n]
      tag == toLowerCase(node.tagName)
      parent == node.parent
      siblings == SelectSeq(children(d, parent),
                            LAMBDA c : d.nodes[c].tagName = node.tagName)
      nodeClasses == join(sort(classList(node)), <<" ">>)
      similarSiblings ==
        SelectSeq(siblings,
                  LAMBDA c : join(sort(classList(d.nodes[c])), <<" ">>) = nodeClasses)
  IN IF tag = TagLi THEN TRUE
     ELSE IF Len(siblings) > 1 /\ Len(similarSiblings) > 1 THEN TRUE
     ELSE IF tag \in RepeatableTags
             /\ toLowerCase(parentTagName(d, n)) \in ListParentTags THEN TRUE
     ELSE FALSE

RECURSIVE decimal(_)
decimal(n) == IF n < 10 THEN <<Digits[n + 1]>> ELSE Append(decimal(n \div 10), Digits[(n % 10) + 1])

(* ids numbered from one *)
elementIdFromOne(n) == <<"e","l","e","m","e","n","t","-">> \o decimal(n + 1)

(* `element-${n}` *)
elementId(n) == <<"e","l","e","m","e","n","t","-">> \o decimal(n)

directText(d, n) ==
  LET texts == SelectSeq(d.nodes[n].childNodes,
                         LAMBDA c : d.nodes[c].nodeType = TEXT_NODE)
      trimmed == [k \in DOMAIN texts |-> trim(d.nodes[texts[k]].data)]
  IN join(SelectSeq(trimmed, LAMBDA t : Len(t) > 0), <<" ">>)

RECURSIVE traverseNode(_, _, _, _)
RECURSIVE traverseChildren(_, _, _, _, _)

(* returns the grown collection and the id of the record made for n *)
traverseNode(d, n, path, elements) ==
  LET node == d.nodes[n]
      element ==
        [id |-> elementId(Len(elements)),
         tag |-> toLowerCase(node.tagName),
         classes |-> classList(node),
         attributes |-> SelectSeq(node.attributes, LAMBDA a : a.name # AttrClass),
         text |-> directText(d, n),
         path |-> Append(path, Len(elements)),
         children |-> <<>>,
         isRepeatable |-> isRepeatableElement(d, n)]
      pushed == Append(elements, element)
      currentIndex == Len(pushed) - 1
      sub == traverseChildren(d, children(d, n), Append(path, currentIndex),
                              pushed, <<>>)
  IN [elements |-> [sub.elements EXCEPT ![currentIndex + 1].children = sub.ids],
      id |-> element.id]

traverseChildren(d, kids, path, elements, ids) ==
  IF kids = <<>> THEN [elements |-> elements, ids |-> ids]
  ELSE LET r == traverseNode(d, Head(kids), path, elements) IN
       traverseChildren(d, Tail(kids), path, r.elements, Append(ids, r.id))

(* the loop over doc.body.children *)
RECURSIVE traverseBody(_, _, _)
traverseBody(d, kids, elements) ==
  IF kids = <<>> THEN elements
  ELSE traverseBody(d, Tail(kids), traverseNode(d, Head(kids), <<>>, elements).elements)

extractSchema(d) == traverseBody(d, children(d, 0), <<>>)

parseHTMLToSchema(html) == extractSchema(parseFromString(html))

----------------------------------------------------------------------------
(* Bounds and inputs of the core-function specifications *)

MaxRecs == 3   \* records in a collection given to schemaToHTML
MaxLen == 2    \* characters in a hostile text, class token or attribute value

SetToSeq(S) ==
  [k \in 1..Cardinality(S) |-> CHOOSE x \in S : Cardinality({y \in S : y < x}) = k - 1]

Reverse(s) == [k \in DOMAIN s |-> s[Len(s) + 1 - k]]

RECURSIVE Climb(_, _, _)
Climb(p, i, k) == IF k = 0 \/ i = 0 THEN i ELSE Climb(p, p[i], k - 1)

(* parent functions of the forests on 1..n (0: no parent) *)
Forests(n) == {p \in [1..n -> 0..n] : \A i \in 1..n : Climb(p, i, n) = 0}

Ancestors(p, i, n) == {Climb(p, i, k) : k \in 1..n} \ {0}

Rec(id, tag, text, classes, attributes, kids) ==
  [id |-> id, tag |-> tag, classes |-> classes, attributes |-> attributes,
   text |-> text, path |-> <<>>, children |-> kids, isRepeatable |-> FALSE]

InvalidTag == <<"1","x">>
Letter(k) == <<LowerAlpha[k]>>

Defects(p, n) ==
  {[kind |-> "none", r |-> 0, s |-> 0]}
  \cup {[kind |-> k, r |-> r, s |-> 0] :
          k \in {"danglingFirst", "danglingLast", "invalidTag"}, r \in 1..n}
  \cup {d \in {[kind |-> "shared", r |-> r, s |-> s] : r \in 1..n, s \in 1..n} :
          d.s # d.r /\ p[d.s] # d.r /\ d.s \notin Ancestors(p, d.r, n)}

(* a collection of n records shaped by the forest p: record k holds the text
   Letter(k); desc reverses every children list, rev numbers the ids from the
   end of the collection, and defect adds one irregularity *)
ShapedCollection(n, p, desc, rev, defect) ==
  LET idOf(k) == elementId(IF rev THEN n - k ELSE k - 1)
      own(k) == LET asc == SetToSeq({j \in 1..n : p[j] = k}) IN
                IF desc THEN Reverse(asc) ELSE asc
      kids(k) ==
        LET ids == [j \in DOMAIN own(k) |-> idOf(own(k)[j])] IN
        IF defect.r # k THEN ids
        ELSE CASE defect.kind = "danglingFirst" -> <<elementId(n)>> \o ids
               [] defect.kind = "danglingLast" -> Append(ids, elementId(n))
               [] defect.kind = "shared" -> Append(ids, idOf(defect.s))
               [] OTHER -> ids
  IN [k \in 1..n |->
        Rec(idOf(k),
            IF defect.kind = "invalidTag" /\ defect.r = k THEN InvalidTag ELSE TagDiv,
            Letter(k), <<>>, <<>>, kids(k))]

ShapedOn(n, p) ==
  {ShapedCollection(n, p, desc, rev, [kind |-> "none", r |-> 0, s |-> 0]) :
     desc \in BOOLEAN, rev \in BOOLEAN}
  \cup {ShapedCollection(n, p, FALSE, FALSE, defect) : defect \in Defects(p, n)}

ShapedCollections ==
  UNION {UNION {ShapedOn(n, p) : p \in Forests(n)} : n \in 0..MaxRecs}

(* the characters hostile content is made of *)
HostileChars == {"&", "<", ">", "\"", "'", "x", " "}

RECURSIVE Strings(_, _)
Strings(alphabet, n) ==
  IF n = 0 THEN {<<>>}
  ELSE LET shorter == Strings(alphabet, n - 1) IN
       shorter \cup {Append(s, c) : s \in shorter, c \in alphabet}

HostileStrings == Strings(HostileChars, MaxLen)

AttrId == <<"i","d">>
AttrOnclick == <<"o","n","c","l","i","c","k">>
AttrDataBad == <<"d","a","t","a"," ","b","a","d">>
AttrUpper == <<"I","D">>
AttrNames == {AttrId, AttrOnclick, AttrDataBad, AttrUpper, InvalidTag}

(* attributes with an unsafe name, or with a hostile value *)
HostileAttrs ==
  {[name |-> k, value |-> Letter(5)] : k \in AttrNames}
  \cup {[name |-> AttrId, value |-> v] : v \in HostileStrings}

(* one record with hostile text, or a hostile class token beside a plain one,
   or a hostile attribute alone or after a plain one *)
HostileRecords ==
  {Rec(elementId(0), TagDiv, t, <<>>, <<>>, <<>>) : t \in HostileStrings}
  \cup {Rec(elementId(0), TagDiv, Letter(1), << Letter(3), t >>, <<>>, <<>>) :
          t \in HostileStrings \ {<<>>}}
  \cup {Rec(elementId(0), TagDiv, Letter(1), <<Letter(3)>>, as, <<>>) :
          as \in {<< a >> : a \in HostileAttrs}
                 \cup {<< [name |-> TagLi, value |-> Letter(4)], a >> : a \in HostileAttrs}}

(* a hostile record alone, or one with hostile text holding a child record *)
HostileCollections ==
  {<< r >> : r \in HostileRecords}
  \cup {<< Rec(elementId(0), TagDiv, t, <<>>, <<>>, <<elementId(1)>>),
           Rec(elementId(1), TagSpan, Letter(2), <<>>, <<>>, <<>>) >> :
          t \in HostileStrings}

SerializerInputs == ShapedCollections \cup HostileCollections

ArgKinds == {"value", "null", "undefined"}

(* markups given to parseHTMLToSchema: text beside element children, several
   top-level elements, omitted end tags, void elements, character references *)
SampleMarkups ==
  {
    <<>>,
    <<"x">>,
    <<"<","d","i","v",">","a","<","s","p","a","n",">","b","<","/","s","p",
      "a","n",">","<","/","d","i","v",">">>,
    <<"<","u","l",">","<","l","i",">","a","<","l","i",">","b","<","/","u",
      "l",">">>,
    <<"<","d","i","v",">","a","<","s","p","a","n",">","b","<","/","s","p",
      "a","n",">","c","<","/","d","i","v",">","\n","<","u","l",">","<","l",
      "i",">","d","<","l","i",">","e","<","/","u","l",">">>,
    <<"<","d","i","v",">","a","<","b","r",">","b","<","/","d","i","v",">">>,
    <<"<","d","i","v",">","a","&","l","t",";","x","<","/","d","i","v",">">>,
    <<"<","a"," ","t","i","t","l","e","=","\"","a","&","q","u","o","t",";",
      "b","\"",">","c","<","/","a",">">>,
    <<"<","i","m","g"," ","s","r","c","=","\"","s","\"",">">> }

----------------------------------------------------------------------------
(* The exported functions as calls: the argument may be null or undefined *)

(* the ids buildElement visits below elementId within fuel nested calls *)
RECURSIVE visited(_, _, _)
visited(elements, id, fuel) ==
  IF fuel = 0 \/ find(elements, id) = 0 THEN {}
  ELSE UNION {{c} \cup visited(elements, c, fuel - 1) :
                c \in Range(elements[find(elements, id)].children)}

(* buildElement calls itself without end when a record rendered from a root
   is found again below itself: the call stack overflows *)
overflows(elements) ==
  \E r \in DOMAIN elements :
    /\ elements[r].id \notin childIds(elements)
    /\ \E x \in {elements[r].id} \cup visited(elements, elements[r].id, Len(elements)) :
         x \in visited(elements, x, Len(elements))

(* a schemaToHTML that rejects a missing collection *)
schemaToHTMLStrict(c, kind, elements) ==
  IF kind # "value" THEN [outcome |-> "threw", value |-> <<>>]
  ELSE IF overflows(elements) THEN [outcome |-> "threw", value |-> <<>>]
  ELSE [outcome |-> "returned", value |-> schemaToHTMLOf(c, elements)]

(* schemaToHTML(elements): `if (!elements || elements.length === 0) return ''` *)
schemaToHTMLCall(c, kind, elements) ==
  IF kind # "value" THEN [outcome |-> "returned", value |-> <<>>]
  ELSE IF overflows(elements) THEN [outcome |-> "threw", value |-> <<>>]
  ELSE [outcome |-> "returned", value |-> schemaToHTMLOf(c, elements)]

(* String(html), the conversion DOMParser.parseFromString applies to its argument *)
toDOMString(kind, html) ==
  CASE kind = "null" -> <<"n","u","l","l">>
    [] kind = "undefined" -> <<"u","n","d","e","f","i","n","e","d">>
    [] OTHER -> html

(* parseHTMLToSchema(html): no check of its own before the parser is called *)
parseHTMLToSchemaCall(kind, html) ==
  [outcome |-> "returned", value |-> parseHTMLToSchema(toDOMString(kind, html))]

----------------------------------------------------------------------------
(* SpecCore: the core functions applied to bounded inputs.  A run starts
   with a call of schemaToHTML on a collection or of parseHTMLToSchema on a
   markup string, and goes on feeding each result to the other function.
   argKind is the kind of argument of the first call of the run. *)

InitCore ==
  /\ copy \in Copies
  /\ argKind \in ArgKinds
  /\ \/ /\ pc = "callSchemaToHTML"
        /\ schema \in (IF argKind = "value" THEN SerializerInputs ELSE {<<>>})
        /\ htmlCode = <<>>
     \/ /\ pc = "callParseHTMLToSchema"
        /\ htmlCode \in (IF argKind = "value" THEN SampleMarkups ELSE {<<>>})
        /\ schema = <<>>
  /\ doc = EmptyDocument
  /\ reparsed = <<>>
  /\ outcome = "none"
  /\ captured = <<>>
  /\ edits = 0
  /\ fields = <<>>
  /\ event = NoEvent

CallSchemaToHTML ==
  /\ pc \in {"callSchemaToHTML", "extracted"}
  /\ LET r == schemaToHTMLCall(copy, IF pc = "extracted" THEN "value" ELSE argKind, schema) IN
       /\ outcome' = r.outcome
       /\ htmlCode' = IF r.outcome = "returned" THEN r.value ELSE htmlCode
  /\ pc' = "serialized"
  /\ UNCHANGED <<copy, argKind, schema, doc, reparsed, captured, edits, fields, event>>

CallParseHTMLToSchema ==
  /\ pc = "callParseHTMLToSchema"
  /\ LET r == parseHTMLToSchemaCall(argKind, htmlCode) IN
       /\ outcome' = r.outcome
       /\ schema' = r.value
  /\ doc' = parseFromString(toDOMString(argKind, htmlCode))
  /\ pc' = "extracted"
  /\ UNCHANGED <<copy, argKind, htmlCode, reparsed, captured, edits, fields, event>>

ReparseOutput ==
  /\ pc = "serialized"
  /\ LET r == parseHTMLToSchemaCall("value", htmlCode) IN
       /\ outcome' = r.outcome
       /\ reparsed' = r.value
  /\ doc' = parseFromString(htmlCode)
  /\ pc' = "reparsed"
  /\ UNCHANGED <<copy, argKind, schema, htmlCode, captured, edits, fields, event>>

NextCore == CallSchemaToHTML \/ CallParseHTMLToSchema \/ ReparseOutput

SpecCore == InitCore /\ [][NextCore]_vars


----------------------------------------------------------------------------
(* Vocabulary of the properties of schemaToHTML *)

EscapeChars == {"&", "<", ">", "\"", "'"}

Count(s, c) == Cardinality({i \in DOMAIN s : s[i] = c})

(* s with every character that needs escaping replaced by a plain one *)
Neutral(s) == [i \in DOMAIN s |-> IF s[i] \in EscapeChars THEN "x" ELSE s[i]]

NeutralRecord(r) ==
  [r EXCEPT
     !.text = Neutral(r.text),
     !.classes = [k \in DOMAIN r.classes |-> Neutral(r.classes[k])],
     !.attributes = [k \in DOMAIN r.attributes |->
                       [name |-> r.attributes[k].name,
                        value |-> Neutral(r.attributes[k].value)]]]

NeutralCollection(elements) == [k \in DOMAIN elements |-> NeutralRecord(elements[k])]

EscapedForms ==
  { <<"&","a","m","p",";">>, <<"&","l","t",";">>, <<"&","g","t",";">>,
    <<"&","q","u","o","t",";">>, <<"&","#","0","3","9",";">>, <<"&","#","3","9",";">> }

StartsAt(s, i, e) == i + Len(e) - 1 <= Len(s) /\ SubSeq(s, i, i + Len(e) - 1) = e

Contains(s, e) == \E i \in 1..Len(s) : StartsAt(s, i, e)

(* the literal pattern ^[a-z][a-z0-9-]*$ *)
MatchesSafeName(s) ==
  /\ Len(s) > 0
  /\ IsLower(s[1])
  /\ \A i \in 2..Len(s) : IsLower(s[i]) \/ IsDigit(s[i]) \/ s[i] = "-"

Serialized == pc = "serialized" /\ argKind = "value"

----------------------------------------------------------------------------
(* C1: whatever collection schemaToHTML is given, the five characters
   & < > " ' of a record's text, class tokens and attribute values come out
   escaped: the output holds exactly as many < > " ' as the output for the
   same collection with those characters replaced by plain ones (the
   serializer's own delimiters), and every & of the output starts one of the
   escaped forms. *)
C1_ContentEscaped ==
  Serialized =>
    LET plain == schemaToHTMLOf(copy, NeutralCollection(schema)) IN
      /\ \A c \in {"<", ">", "\"", "'"} : Count(htmlCode, c) = Count(plain, c)
      /\ \A i \in DOMAIN htmlCode :
           htmlCode[i] = "&" => \E e \in EscapedForms : StartsAt(htmlCode, i, e)

(* C2: a single record with a valid tag, no class, no attribute, no child
   and text t, serialized and extracted again, gives one record with text t. *)
C2_TextRoundTrip ==
  (/\ pc = "reparsed" /\ argKind = "value"
   /\ Len(schema) = 1
   /\ schema[1].tag = TagDiv /\ schema[1].classes = <<>>
   /\ schema[1].attributes = <<>> /\ schema[1].children = <<>>)
  => /\ Len(reparsed) = 1
     /\ reparsed[1].text = schema[1].text

----------------------------------------------------------------------------
(* Collections compared with the collection given to schemaToHTML *)

IdsOf(elements) == {elements[k].id : k \in DOMAIN elements}

ReferencedIds(elements) ==
  {c \in IdsOf(elements) \cup UNION {Range(elements[k].children) : k \in DOMAIN elements} :
     \E k \in DOMAIN elements : \E j \in DOMAIN elements[k].children :
        elements[k].children[j] = c}

RecordsWithId(elements, id) == {k \in DOMAIN elements : elements[k].id = id}

RECURSIVE Descendants(_, _, _)
Descendants(elements, id, fuel) ==
  IF fuel = 0 THEN {}
  ELSE UNION {{c} \cup Descendants(elements, c, fuel - 1) :
                c \in UNION {Range(elements[k].children) : k \in RecordsWithId(elements, id)}}

(* the collection without the record id, its descendants and the references to them *)
Detach(elements, id) ==
  LET gone == {id} \cup Descendants(elements, id, Len(elements))
      kept == SelectSeq(elements, LAMBDA r : r.id \notin gone)
  IN [k \in DOMAIN kept |->
        [kept[k] EXCEPT !.children = SelectSeq(kept[k].children, LAMBDA c : c \notin gone)]]

Dangling(elements) == ReferencedIds(elements) \ IdsOf(elements)

WithoutDangling(elements) ==
  [k \in DOMAIN elements |->
     [elements[k] EXCEPT
        !.children = SelectSeq(elements[k].children,
                               LAMBDA c : c \notin Dangling(elements))]]

WithoutAttr(elements, k, j) ==
  [elements EXCEPT
     ![k].attributes = SubSeq(elements[k].attributes, 1, j - 1)
                       \o SubSeq(elements[k].attributes, j + 1, Len(elements[k].attributes))]

(* C6: a record whose tag does not match ^[a-z][a-z0-9-]*$, referenced by a
   parent or being the only root, contributes nothing and raises nothing:
   the output is the output of the collection without that record's subtree
   and the reference to it. *)
C6_InvalidTagDropped ==
  Serialized =>
    \A k \in DOMAIN schema :
      (/\ ~MatchesSafeName(schema[k].tag)
       /\ \/ schema[k].id \in ReferencedIds(schema)
          \/ ReferencedIds(schema) \cup {schema[k].id} = IdsOf(schema))
      => /\ outcome = "returned"
         /\ htmlCode = schemaToHTMLOf(copy, Detach(schema, schema[k].id))

(* C7: a children id that matches no record renders nothing and raises
   nothing: the output is the output of the collection with the dangling ids
   taken out of the children lists. *)
C7_DanglingIgnored ==
  (Serialized /\ Dangling(schema) # {})
  => /\ outcome = "returned"
     /\ htmlCode = schemaToHTMLOf(copy, WithoutDangling(schema))

C7_Witness ==
  /\ Serialized /\ Dangling(schema) # {}
  /\ \E k \in DOMAIN schema :
       /\ Len(schema[k].children) = 2
       /\ schema[k].children[1] \in Dangling(schema)
       /\ schema[k].children[2] \in IdsOf(schema)
  /\ Count(htmlCode, "<") = 2 * Len(schema)

(* C8: an attribute is emitted if and only if its key matches
   ^[a-z][a-z0-9-]*$ without regard to case: an attribute with such a key
   appears as key=" in the output, and taking away an attribute with another
   key leaves the output as it is. *)
C8_AttributeFilter ==
  Serialized =>
    \A k \in DOMAIN schema : \A j \in DOMAIN schema[k].attributes :
      LET a == schema[k].attributes[j]
          rest == schemaToHTMLOf(copy, WithoutAttr(schema, k, j))
      IN IF MatchesSafeName(toLowerCase(a.name))
         THEN Contains(htmlCode, <<" ">> \o a.name \o <<"=", "\"">>) /\ htmlCode # rest
         ELSE htmlCode = rest

(* a forest of plain records: unique ids, every reference to exactly one
   record, no record referenced twice or by a descendant, valid tags, texts
   that are distinct single letters, nothing to escape and safe keys *)
PlainForest(elements) ==
  /\ \A k \in DOMAIN elements :
       LET r == elements[k] IN
       /\ RecordsWithId(elements, r.id) = {k}
       /\ MatchesSafeName(r.tag)
       /\ Len(r.text) = 1 /\ IsLower(r.text[1])
       /\ \A l \in DOMAIN elements : elements[l].text = r.text => l = k
       /\ NeutralRecord(r) = r
       /\ \A j \in DOMAIN r.attributes : MatchesSafeName(r.attributes[j].name)
       /\ r.id \notin Descendants(elements, r.id, Len(elements))
       /\ \A j \in DOMAIN r.children :
            /\ r.children[j] \in IdsOf(elements)
            /\ \A l \in DOMAIN elements : \A i \in DOMAIN elements[l].children :
                 elements[l].children[i] = r.children[j] => (l = k /\ i = j)

(* the data of the text node an element starts with *)
OwnText(d, n) ==
  LET kids == d.nodes[n].childNodes IN
  IF kids # <<>> /\ d.nodes[kids[1]].nodeType = TEXT_NODE THEN d.nodes[kids[1]].data
  ELSE <<>>

IsElementFor(d, n, r) ==
  /\ d.nodes[n].nodeType = ELEMENT_NODE
  /\ localName(d, n) = r.tag
  /\ OwnText(d, n) = r.text

(* C9: for a forest of plain records, the parsed output holds at top level
   the roots (records whose id is in no children list), each once and in
   collection order, with exactly a newline between two of them; every
   element holds its own text followed by the elements of its record's
   children, in children order and with nothing between them; no record is
   emitted elsewhere; the empty collection gives the empty string. *)
C9_RootsAndChildren ==
  (pc = "reparsed" /\ argKind = "value" /\ PlainForest(schema))
  => LET roots == SelectSeq(schema, LAMBDA r : r.id \notin ReferencedIds(schema))
         elems == {n \in DOMAIN doc.nodes : doc.nodes[n].nodeType = ELEMENT_NODE}
     IN /\ schema = <<>> => htmlCode = <<>>
        /\ Cardinality(elems) = Len(schema)
        /\ Len(doc.body) = (IF roots = <<>> THEN 0 ELSE 2 * Len(roots) - 1)
        /\ \A j \in DOMAIN roots : IsElementFor(doc, doc.body[2 * j - 1], roots[j])
        /\ \A j \in 1..(Len(roots) - 1) :
             /\ doc.nodes[doc.body[2 * j]].nodeType = TEXT_NODE
             /\ doc.nodes[doc.body[2 * j]].data = <<"\n">>
        /\ \A n \in elems : \E k \in DOMAIN schema :
             LET r == schema[k]
                 kids == doc.nodes[n].childNodes
             IN /\ IsElementFor(doc, n, r)
                /\ Len(kids) = 1 + Len(r.children)
                /\ \A j \in DOMAIN r.children : \E l \in DOMAIN schema :
                     /\ schema[l].id = r.children[j]
                     /\ IsElementFor(doc, kids[j + 1], schema[l])

C9_Witness ==
  /\ pc = "reparsed" /\ argKind = "value" /\ PlainForest(schema)
  /\ Len(schema) = 3
  /\ Len(doc.body) = 3
  /\ schema[3].children = <<schema[2].id>>
  /\ Contains(htmlCode, <<"<","/","d","i","v",">","\n","<","d","i","v",">">>)

----------------------------------------------------------------------------
(* SpecExt: parseHTMLToSchema (the same text in both copies) applied to
   the markup of bounded element trees: li, ul and div elements without
   class, and a elements (always without element children) with one of three
   class attributes. *)

MaxNodes == 3   \* elements in a markup given to parseHTMLToSchema

ClassXY == <<"x", " ", "y">>
ClassYX == <<"y", " ", "x">>
ClassZ == <<"z">>

ExtLabels ==
  {[tag |-> t, class |-> <<>>] : t \in {TagLi, TagUl, TagDiv}}
  \cup {[tag |-> TagA, class |-> c] : c \in {ClassXY, ClassYX, ClassZ}}

(* parent functions of the ordered forests on 1..n numbered in document order *)
PreForests(n) ==
  {p \in [1..n -> 0..n] :
     \A i \in 1..n :
       /\ p[i] < i
       /\ (i > 1 /\ p[i] # 0) => p[i] \in Ancestors(p, i - 1, n) \cup {i - 1}}

RECURSIVE MarkupOf(_, _, _, _)
MarkupOf(n, p, lab, i) ==
  LET kids == SetToSeq({j \in 1..n : p[j] = i})
      open == IF i = 0 THEN <<>>
              ELSE <<"<">> \o lab[i].tag
                   \o (IF lab[i].class = <<>> THEN <<>>
                       ELSE <<" ">> \o AttrClass \o <<"=", "\"">> \o lab[i].class \o <<"\"">>)
                   \o <<">">> \o Letter(i)
      close == IF i = 0 THEN <<>> ELSE <<"<", "/">> \o lab[i].tag \o <<">">>
  IN open \o join([k \in DOMAIN kids |-> MarkupOf(n, p, lab, kids[k])], <<>>) \o close

ExtMarkupsOn(n) ==
  {MarkupOf(n, pl[1], pl[2], 0) :
     pl \in {q \in PreForests(n) \X [1..n -> ExtLabels] :
               \A i \in 1..n : q[1][i] # 0 => q[2][q[1][i]].tag # TagA}}

ExtMarkups == UNION {ExtMarkupsOn(n) : n \in 0..MaxNodes}

InitExt ==
  /\ copy = "schemaParser.js"
  /\ argKind = "value"
  /\ pc = "callParseHTMLToSchema"
  /\ htmlCode \in ExtMarkups
  /\ schema = <<>>
  /\ doc = EmptyDocument
  /\ reparsed = <<>>
  /\ outcome = "none"
  /\ captured = <<>>
  /\ edits = 0
  /\ fields = <<>>
  /\ event = NoEvent

NextExt == CallParseHTMLToSchema

SpecExt == InitExt /\ [][NextExt]_vars

(* Document order, stated on the tree: m comes before n when m is an
   ancestor of n, or when the subtrees of two siblings (or of two top-level
   nodes) hold m and n and the first one holds m. *)
ParentOf(d, n) == d.nodes[n].parent

RECURSIVE AncestorsOrSelf(_, _, _)
AncestorsOrSelf(d, n, fuel) ==
  IF n = 0 \/ fuel = 0 THEN {}
  ELSE {n} \cup AncestorsOrSelf(d, ParentOf(d, n), fuel - 1)

PositionIn(d, n) ==
  LET sibs == ChildNodesOf(d, ParentOf(d, n)) IN
  CHOOSE k \in DOMAIN sibs : sibs[k] = n

Precedes(d, m, n) ==
  LET am == AncestorsOrSelf(d, m, Len(d.nodes))
      an == AncestorsOrSelf(d, n, Len(d.nodes))
  IN /\ m # n
     /\ \/ m \in an
        \/ \E a \in am \ an : \E b \in an \ am :
             /\ ParentOf(d, a) = ParentOf(d, b)
             /\ PositionIn(d, a) < PositionIn(d, b)

ElementsOf(d) == {n \in DOMAIN d.nodes : d.nodes[n].nodeType = ELEMENT_NODE}

RankOf(d, n) == Cardinality({m \in ElementsOf(d) : Precedes(d, m, n)})

ElementChildrenOf(d, n) == {m \in ElementsOf(d) : ParentOf(d, m) = n}

Extracted == pc = "extracted" /\ argKind = "value"

(* C3: a document with N elements gives N records; the element with k
   elements before it in document order is the record at position k, with
   id element-k, and that record's children are the ids of the element's
   direct element children in document order. *)
C3_PreOrderIds ==
  Extracted =>
    /\ Len(schema) = Cardinality(ElementsOf(doc))
    /\ \A n \in ElementsOf(doc) :
         LET k == RankOf(doc, n)
             r == schema[k + 1]
             kids == ElementChildrenOf(doc, n)
         IN /\ r.id = <<"e","l","e","m","e","n","t","-">> \o <<Digits[k + 1]>>
            /\ r.tag = localName(doc, n)
            /\ r.text = OwnText(doc, n)
            /\ Len(r.children) = Cardinality(kids)
            /\ \A m \in kids : \E j \in DOMAIN r.children :
                 /\ r.children[j] = schema[RankOf(doc, m) + 1].id
                 /\ j = 1 + Cardinality({o \in kids : Precedes(doc, o, m)})

C3_Witness ==
  /\ Extracted
  /\ Len(schema) = 3
  /\ Len(schema[1].children) = 1
  /\ Len(schema[2].children) = 0
  /\ Len(doc.body) = 2
  /\ schema[3].id = <<"e","l","e","m","e","n","t","-","2">>

ClassSetOf(d, n) == Range(splitOnSpace(getAttribute(d.nodes[n], AttrClass), <<>>, <<>>))

(* C10: isRepeatable of an element's record is true exactly when the
   element is an li, or another element child of its parent has its tag and
   its set of classes, or its tag is one of span, a, button, div, article,
   section and its parent is a ul, ol, nav or menu element. *)
C10_IsRepeatable ==
  Extracted =>
    \A n \in ElementsOf(doc) :
      schema[RankOf(doc, n) + 1].isRepeatable
      <=> \/ localName(doc, n) = TagLi
          \/ \E m \in ElementsOf(doc) \ {n} :
               /\ ParentOf(doc, m) = ParentOf(doc, n)
               /\ localName(doc, m) = localName(doc, n)
               /\ ClassSetOf(doc, m) = ClassSetOf(doc, n)
          \/ /\ localName(doc, n) \in {TagSpan, TagA, TagButton, TagDiv, TagArticle, TagSection}
             /\ ParentOf(doc, n) # 0
             /\ localName(doc, ParentOf(doc, n)) \in {TagUl, TagOl, TagNav, TagMenu}

C10_Witness ==
  /\ Extracted
  /\ Len(schema) = 3
  /\ schema[1].tag = TagDiv /\ ~schema[1].isRepeatable
  /\ schema[2].tag = TagA /\ schema[2].classes = <<"x", "y">> /\ schema[2].isRepeatable
  /\ schema[3].tag = TagA /\ schema[3].classes = <<"y", "x">> /\ schema[3].isRepeatable
  /\ schema[1].children = <<schema[2].id, schema[3].id>>

----------------------------------------------------------------------------
(* The Editor component (src/src/components/Editor.jsx) *)

MaxEdits == 2   \* events handled in one run of the editor

(* the field names of the form: generateFormFields produces them and
   handleFormUpdate branches on them *)
NameTag == <<"t","a","g">>
NameText == <<"t","e","x","t">>
NameClasses == <<"c","l","a","s","s","e","s">>
AttrPrefix == <<"a","t","t","r","_">>
AttrHref == <<"h","r","e","f">>

(* getDefaultHTML(), shortened to a block holding a list whose second item
   holds a link: the element kinds of the default document, with the class
   and href attributes and the line breaks it has between elements *)
getDefaultHTML ==
  <<"<","d","i","v"," ","c","l","a","s","s","=","\"","p","\"",">","\n",
      "<","u","l",">","<","l","i",">","a","<","/","l","i",">","<","l","i",
      ">","<","a"," ","h","r","e","f","=","\"","#","\"",">","b","<","/","a",
      ">","<","/","l","i",">","<","/","u","l",">","\n","<","/","d","i","v",
      ">">>

(* what the user types into the source pane *)
TypedMarkups ==
  { <<>>,
    <<"<","n","a","v",">","<","a"," ","c","l","a","s","s","=","\"","k","\"",
      ">","a","<","/","a",">","<","a"," ","c","l","a","s","s","=","\"","k",
      "\"",">","b","<","/","a",">","<","/","n","a","v",">">> }

(* what the user types into a text field, the classes field, an attribute field *)
EditTexts == { <<"z">>, <<>> }
ClassInputs == { <<"p", " ", " ", "q">> }
AttrInputs == { <<"v">> }

NewItem == <<"N","e","w"," ","I","t","e","m">>

(* value.split(' ').filter(c => c) *)
RECURSIVE splitFilter(_, _, _)
splitFilter(s, cur, out) ==
  IF s = <<>> THEN (IF cur = <<>> THEN out ELSE Append(out, cur))
  ELSE IF Head(s) = " "
       THEN splitFilter(Tail(s), <<>>, IF cur = <<>> THEN out ELSE Append(out, cur))
       ELSE splitFilter(Tail(s), Append(cur, Head(s)), out)

(* { ...el.attributes, [attrName]: value } *)
setAttr(attributes, attrName, value) ==
  IF \E k \in DOMAIN attributes : attributes[k].name = attrName
  THEN [k \in DOMAIN attributes |->
          IF attributes[k].name = attrName
          THEN [name |-> attrName, value |-> value] ELSE attributes[k]]
  ELSE Append(attributes, [name |-> attrName, value |-> value])

(* doc.body.querySelectorAll('*'): the elements in document order *)
querySelectorAll(d) == SetToSeq({n \in DOMAIN d.nodes : d.nodes[n].nodeType = ELEMENT_NODE})

(* el.textContent of an element whose only child is a text node *)
textContent(d, n) == d.nodes[d.nodes[n].childNodes[1]].data

(* setSchema(updated); setHtmlCode(schemaToHTML(updated)): when schemaToHTML
   throws, the handler ends there and htmlCode keeps its value.  The effects
   on htmlCode run after the render, before the next event is handled. *)
Commit(updated, ev) ==
  LET r == schemaToHTMLCall(copy, "value", updated)
      newHTML == IF r.outcome = "returned" THEN r.value ELSE htmlCode
  IN /\ schema' = updated
     /\ htmlCode' = newHTML
     /\ outcome' = r.outcome
     /\ pc' = IF newHTML # htmlCode THEN "effects" ELSE "idle"
     /\ edits' = edits + 1
     /\ event' = ev
     /\ UNCHANGED <<copy, argKind, doc, reparsed, captured, fields>>

CanEdit == pc = "idle" /\ edits < MaxEdits

Init ==
  /\ copy \in Copies
  /\ argKind = "value"
  /\ htmlCode = getDefaultHTML
  /\ schema = <<>>
  /\ captured = <<>>
  /\ doc = EmptyDocument
  /\ reparsed = <<>>
  /\ outcome = "none"
  /\ pc = "effects"
  /\ edits = 0
  /\ fields = <<>>
  /\ event = NoEvent

(* useEffect(..., [htmlCode]): updateSchema re-extracts the collection, and
   updatePreview writes the markup into the preview, whose listeners keep
   the collection of the render the effect belongs to *)
updateSchema ==
  /\ pc = "effects"
  /\ schema' = parseHTMLToSchema(htmlCode)
  /\ doc' = parseFromString(htmlCode)
  /\ captured' = schema
  /\ outcome' = "returned"
  /\ pc' = "idle"
  /\ event' = EventOf("updateSchema", <<>>, <<>>)
  /\ UNCHANGED <<copy, argKind, htmlCode, reparsed, edits, fields>>

handleCodeChange ==
  /\ CanEdit
  /\ \E value \in TypedMarkups \ {htmlCode} :
       /\ htmlCode' = value
       /\ pc' = "effects"
  /\ edits' = edits + 1
  /\ event' = EventOf("handleCodeChange", <<>>, <<>>)
  /\ UNCHANGED <<copy, argKind, schema, doc, reparsed, outcome, captured, fields>>

(* schema.map(el => el.id === elementId ? { ...el, text: newText } : el) *)
withText(elements, id, newText) ==
  [k \in DOMAIN elements |->
     IF elements[k].id = id
     THEN [elements[k] EXCEPT !.text = newText] ELSE elements[k]]

(* the classes branch of handleFormUpdate *)
withClasses(elements, id, value) ==
  [k \in DOMAIN elements |->
     IF elements[k].id = id
     THEN [elements[k] EXCEPT !.classes = splitFilter(value, <<>>, <<>>)]
     ELSE elements[k]]

(* the attr_ branch of handleFormUpdate *)
withAttribute(elements, id, name, value) ==
  [k \in DOMAIN elements |->
     IF elements[k].id = id
     THEN [elements[k] EXCEPT
             !.attributes = setAttr(elements[k].attributes, name, value)]
     ELSE elements[k]]

(* [...schema, newElement] of addRepeatableElement *)
withClone(elements, element) ==
  Append(elements,
         [element EXCEPT
            !.id = elementId(Len(elements)),
            !.text = IF element.text = <<>> THEN NewItem ELSE element.text])

(* the filter and the re-indexing of removeElement *)
reindexed(elements, id) ==
  LET updatedSchema == SelectSeq(elements, LAMBDA el : el.id # id)
  IN [idx \in DOMAIN updatedSchema |->
        [updatedSchema[idx] EXCEPT !.id = elementId(idx - 1)]]

(* the blur listener of the preview: element number index of the preview,
   holding one text node, got a new text *)
updateElementText ==
  /\ CanEdit
  /\ \E index \in DOMAIN querySelectorAll(doc) : \E newText \in EditTexts :
       LET el == querySelectorAll(doc)[index]
           id == elementId(index - 1)
       IN /\ Len(doc.nodes[el].childNodes) = 1
          /\ doc.nodes[doc.nodes[el].childNodes[1]].nodeType = TEXT_NODE
          /\ newText # textContent(doc, el)
          /\ Commit(withText(captured, id, newText),
                    EventOf("updateElementText", id, NameText))

handleFormUpdate ==
  /\ CanEdit
  /\ \E i \in DOMAIN schema :
       \/ \E value \in EditTexts :
            Commit(withText(schema, schema[i].id, value),
                   EventOf("handleFormUpdate", schema[i].id, NameText))
       \/ \E value \in ClassInputs :
            Commit(withClasses(schema, schema[i].id, value),
                   EventOf("handleFormUpdate", schema[i].id, NameClasses))
       \/ \E j \in DOMAIN schema[i].attributes : \E value \in AttrInputs :
            Commit(withAttribute(schema, schema[i].id,
                                 schema[i].attributes[j].name, value),
                   EventOf("handleFormUpdate", schema[i].id,
                         AttrPrefix \o schema[i].attributes[j].name))

addRepeatableElement ==
  /\ CanEdit
  /\ \E i \in DOMAIN schema :
       /\ schema[i].isRepeatable
       /\ Commit(withClone(schema, schema[i]),
                 EventOf("addRepeatableElement", schema[i].id, <<>>))

removeElement ==
  /\ CanEdit
  /\ \E i \in DOMAIN schema :
       Commit(reindexed(schema, schema[i].id),
              EventOf("removeElement", schema[i].id, <<>>))

Next ==
  \/ updateSchema
  \/ handleCodeChange
  \/ updateElementText
  \/ handleFormUpdate
  \/ addRepeatableElement
  \/ removeElement

Spec == Init /\ [][Next]_vars

(* C4: in every collection the editor holds, ids are unique and every id
   in a children list is the id of exactly one record, another one than the
   record that lists it. *)
C4_ReferentialIntegrity ==
  /\ \A k \in DOMAIN schema : RecordsWithId(schema, schema[k].id) = {k}
  /\ \A k \in DOMAIN schema : \A j \in DOMAIN schema[k].children :
       /\ Cardinality(RecordsWithId(schema, schema[k].children[j])) = 1
       /\ RecordsWithId(schema, schema[k].children[j]) # {k}

----------------------------------------------------------------------------
(* generateFormFields (the same in both copies) and SpecFields: the function
   applied to one record *)

(* the value of a record's text when the record defines none *)
undefinedText == <<"undefined">>

(* a projection that leaves out an empty text *)
generateFormFieldsTruthy(element) ==
  << [name |-> NameTag, label |-> "Tag", type |-> "text",
      value |-> element.tag, readonly |-> TRUE] >>
  \o (IF element.text # undefinedText /\ element.text # <<>>
      THEN << [name |-> NameText, label |-> "Text Content", type |-> "textarea",
               value |-> element.text, readonly |-> FALSE] >>
      ELSE <<>>)
  \o << [name |-> NameClasses, label |-> "Classes", type |-> "text",
         value |-> join(element.classes, <<" ">>), readonly |-> FALSE] >>
  \o [k \in DOMAIN element.attributes |->
        [name |-> AttrPrefix \o element.attributes[k].name,
         label |-> element.attributes[k].name, type |-> "text",
         value |-> element.attributes[k].value, readonly |-> FALSE]]

generateFormFields(element) ==
  << [name |-> NameTag, label |-> "Tag", type |-> "text",
      value |-> element.tag, readonly |-> TRUE] >>
  \o (IF element.text # undefinedText
      THEN << [name |-> NameText, label |-> "Text Content", type |-> "textarea",
               value |-> element.text, readonly |-> FALSE] >>
      ELSE <<>>)
  \o << [name |-> NameClasses, label |-> "Classes", type |-> "text",
         value |-> join(element.classes, <<" ">>), readonly |-> FALSE] >>
  \o [k \in DOMAIN element.attributes |->
        [name |-> AttrPrefix \o element.attributes[k].name,
         label |-> element.attributes[k].name, type |-> "text",
         value |-> element.attributes[k].value, readonly |-> FALSE]]

FieldRecords ==
  {Rec(elementId(0), tag, text, classes, attributes, <<>>) :
     tag \in {TagDiv, TagA},
     text \in {undefinedText, <<>>, Letter(1)},
     classes \in {<<>>, <<Letter(3)>>, <<Letter(3), Letter(4)>>},
     attributes \in {<<>>,
                     << [name |-> AttrHref, value |-> <<"#">>] >>,
                     << [name |-> AttrHref, value |-> <<"#">>],
                        [name |-> AttrId, value |-> Letter(5)] >>,
                     << [name |-> AttrId, value |-> Letter(5)],
                        [name |-> AttrHref, value |-> <<"#">>] >>,
                     << [name |-> AttrDataBad, value |-> <<>>] >>}}

InitFields ==
  /\ copy \in Copies
  /\ argKind = "value"
  /\ pc = "callGenerateFormFields"
  /\ schema \in {<< r >> : r \in FieldRecords}
  /\ htmlCode = <<>>
  /\ doc = EmptyDocument
  /\ reparsed = <<>>
  /\ outcome = "none"
  /\ captured = <<>>
  /\ edits = 0
  /\ fields = <<>>
  /\ event = NoEvent

CallGenerateFormFields ==
  /\ pc = "callGenerateFormFields"
  /\ fields' = generateFormFields(schema[1])
  /\ outcome' = "returned"
  /\ pc' = "projected"
  /\ UNCHANGED <<copy, argKind, schema, htmlCode, doc, reparsed, captured, edits, event>>

NextFields == CallGenerateFormFields

SpecFields == InitFields /\ [][NextFields]_vars

(* the field list fs is the projection of the record r *)
ProjectionOf(r, fs) ==
  LET hasText == r.text # undefinedText
      off == IF hasText THEN 2 ELSE 1
  IN /\ Len(fs) = off + 1 + Len(r.attributes)
     /\ fs[1].name = NameTag /\ fs[1].value = r.tag /\ fs[1].readonly
     /\ hasText => (fs[2].name = NameText /\ fs[2].value = r.text /\ ~fs[2].readonly)
     /\ fs[off + 1].name = NameClasses
     /\ ~fs[off + 1].readonly
     /\ Count(fs[off + 1].value, " ") = (IF r.classes = <<>> THEN 0 ELSE Len(r.classes) - 1)
     /\ splitFilter(fs[off + 1].value, <<>>, <<>>) = r.classes
     /\ \A j \in DOMAIN r.attributes :
          /\ fs[off + 1 + j].name = <<"a","t","t","r","_">> \o r.attributes[j].name
          /\ fs[off + 1 + j].value = r.attributes[j].value
          /\ ~fs[off + 1 + j].readonly

(* C11: generateFormFields returns the read-only tag field, the text field
   whenever the text is defined (the empty string included), the classes
   field with the classes joined by one space, then one field attr_<key>
   per attribute in iteration order, and nothing else; the record is left
   as it was. *)
C11_FieldList ==
  [][pc' = "projected" => (schema' = schema /\ ProjectionOf(schema[1], fields'))]_vars

C11_Witness ==
  /\ pc = "projected"
  /\ schema[1].text = <<>>
  /\ Len(schema[1].attributes) = 2
  /\ schema[1].attributes[1].name = AttrHref
  /\ Len(fields) = 5
  /\ fields[2].name = NameText
  /\ fields[4].name = <<"a","t","t","r","_","h","r","e","f">>
  /\ fields[5].name = <<"a","t","t","r","_","i","d">>

(* the records of a and b agree on every field but path *)
SameRecords(a, b) ==
  /\ Len(a) = Len(b)
  /\ \A k \in DOMAIN a :
       /\ a[k].id = b[k].id /\ a[k].tag = b[k].tag
       /\ a[k].classes = b[k].classes /\ a[k].attributes = b[k].attributes
       /\ a[k].text = b[k].text /\ a[k].children = b[k].children
       /\ a[k].isRepeatable = b[k].isRepeatable

(* the collection came out of parseHTMLToSchema: every record has its path *)
IsExtracted(elements) == \A k \in DOMAIN elements : elements[k].path # <<>>

(* C12: a collection extracted from a markup, serialized and extracted
   again, comes back with the same id, tag, classes, attributes, text,
   children and isRepeatable in every record. *)
C12_RoundTripStable ==
  (pc = "reparsed" /\ argKind = "value" /\ schema # <<>> /\ IsExtracted(schema))
  => SameRecords(reparsed, schema)

----------------------------------------------------------------------------
(* The structured edits, seen through the markup they leave *)

(* what the markup shows of a record *)
Signature(r) == <<r.tag, r.text, r.classes, r.attributes>>

DistinctSignatures(elements) ==
  \A j, k \in DOMAIN elements :
     Signature(elements[j]) = Signature(elements[k]) => j = k

(* the record that lists record k among its children, 0 for a root *)
ParentIn(elements, k) ==
  IF \E p \in DOMAIN elements : elements[k].id \in Range(elements[p].children)
  THEN CHOOSE p \in DOMAIN elements : elements[k].id \in Range(elements[p].children)
  ELSE 0

ParentSignature(elements, k) ==
  IF ParentIn(elements, k) = 0 THEN <<>>
  ELSE Signature(elements[ParentIn(elements, k)])

(* the records below the record id, as positions *)
Below(elements, id) ==
  {k \in DOMAIN elements : elements[k].id \in Descendants(elements, id, Len(elements))}

(* record k of before is in after, under the same parent *)
Kept(before, k, after) ==
  \E n \in DOMAIN after :
     /\ Signature(after[n]) = Signature(before[k])
     /\ ParentSignature(after, n) = ParentSignature(before, k)

(* after holds every record of before that is neither the record id nor
   below it, under its parent and in its order, and not the record id *)
RemovedExactly(before, id, after) ==
  LET gone == RecordsWithId(before, id) \cup Below(before, id)
      rest == DOMAIN before \ gone
  IN /\ \A k \in rest : Kept(before, k, after)
     /\ \A j, k \in rest :
          (j < k /\ ParentIn(before, j) = ParentIn(before, k)) =>
            \E m, n \in DOMAIN after :
               /\ m < n
               /\ Signature(after[m]) = Signature(before[j])
               /\ Signature(after[n]) = Signature(before[k])
     /\ \A i \in RecordsWithId(before, id) :
          ~ \E n \in DOMAIN after : Signature(after[n]) = Signature(before[i])

(* C13: removeElement(id) on an extracted collection leaves a markup that
   holds every element that is neither the removed one nor below it, with
   its tag, text, classes, attributes, parent and sibling order, and that
   does not hold the removed element. *)
C13_RemoveExactly ==
  [][(event.op = "updateSchema" /\ event'.op = "removeElement"
      /\ DistinctSignatures(schema))
     => RemovedExactly(schema, event'.id, parseHTMLToSchema(htmlCode'))]_vars

(* the ids under parent p in their order, the roots for p = 0 *)
SiblingIds(elements, p) ==
  IF p = 0
  THEN [k \in DOMAIN rootElements(elements) |-> rootElements(elements)[k].id]
  ELSE elements[p].children

(* what a clone takes over from the record: all but the text, which is
   replaced when it is empty *)
CopyOf(r, e) ==
  r.tag = e.tag /\ r.classes = e.classes /\ r.attributes = e.attributes

(* after holds, under the parent that record i has in before, a copy of
   record i directly behind record i, and every record of before *)
ClonedBehind(before, i, after) ==
  /\ \E p \in {0} \cup DOMAIN after :
       /\ p = 0 <=> ParentIn(before, i) = 0
       /\ p # 0 => Signature(after[p]) = ParentSignature(before, i)
       /\ \E j \in 1 .. Len(SiblingIds(after, p)) - 1 :
            \E m, n \in DOMAIN after :
               /\ after[m].id = SiblingIds(after, p)[j]
               /\ after[n].id = SiblingIds(after, p)[j + 1]
               /\ Signature(after[m]) = Signature(before[i])
               /\ CopyOf(after[n], before[i])
  /\ \A k \in DOMAIN before : Kept(before, k, after)

(* C14: addRepeatableElement(e) on an extracted collection leaves a markup
   in which a copy of e is the sibling directly behind e under e's parent,
   and in which every other element is as it was. *)
C14_CloneBehindOriginal ==
  [][(event.op = "updateSchema" /\ event'.op = "addRepeatableElement"
      /\ DistinctSignatures(schema))
     => \A i \in RecordsWithId(schema, event'.id) :
           ClonedBehind(schema, i, parseHTMLToSchema(htmlCode'))]_vars

----------------------------------------------------------------------------
(* SpecLive: the editor with its effects scheduled.  An effect on htmlCode
   that is pending is run by the framework after the render, so the step
   from "effects" to "idle" is weakly fair; in Spec that step is
   updateSchema, and no other action is enabled while an effect is pending. *)

runEffects == pc = "effects" /\ pc' = "idle"

SpecLive == Spec /\ WF_pc(runEffects)

StructuredEdits ==
  {"handleFormUpdate", "updateElementText", "addRepeatableElement", "removeElement"}

(* no effect is pending and no handler is running *)
Settled == pc = "idle"

InSync == SameRecords(schema, parseHTMLToSchema(htmlCode))

(* C15: every change of the markup is eventually followed by a
   re-extraction, whenever no edit is pending the collection is the
   extraction of the current markup, and directly after a structured edit
   the markup is the serialization of the patched collection. *)
C15_ReextractionFollows ==
  /\ (pc = "effects") ~> (event.op = "updateSchema")
  /\ [](Settled => InSync)
  /\ [](event.op \in StructuredEdits => htmlCode = schemaToHTMLOf(copy, schema))

----------------------------------------------------------------------------
(* The frame of the structured edits *)

Flags(elements) == [k \in DOMAIN elements |-> elements[k].isRepeatable]

(* r and q agree on every field but the form field named *)
SameBut(r, q, field) ==
  /\ r.id = q.id /\ r.tag = q.tag /\ r.children = q.children
  /\ r.path = q.path /\ r.isRepeatable = q.isRepeatable
  /\ field # NameText => r.text = q.text
  /\ field # NameClasses => r.classes = q.classes
  /\ (field = NameText \/ field = NameClasses) => r.attributes = q.attributes

(* after is before with at most the named field of the records id patched *)
OnlyFieldPatched(before, id, field, after) ==
  /\ Len(after) = Len(before)
  /\ \A k \in DOMAIN before :
       IF before[k].id = id THEN SameBut(before[k], after[k], field)
       ELSE after[k] = before[k]

(* the step of one structured edit keeps its frame *)
FrameKept ==
  /\ event'.op \in {"handleFormUpdate", "updateElementText"} =>
       OnlyFieldPatched(schema, event'.id, event'.field, schema')
  /\ event'.op = "removeElement" =>
       Flags(schema') = Flags(SelectSeq(schema, LAMBDA el : el.id # event'.id))
  /\ event'.op = "addRepeatableElement" =>
       /\ Len(schema') = Len(schema) + 1
       /\ \A k \in DOMAIN schema : schema'[k] = schema[k]
       /\ \A i \in RecordsWithId(schema, event'.id) :
            schema'[Len(schema')].isRepeatable = schema[i].isRepeatable

(* C16: a structured edit never changes a repeatability flag: handleFormUpdate
   and updateElementText change only the named field of the record whose id
   is given, removeElement leaves the flags of the remaining records, and the
   record appended by addRepeatableElement carries the flag of its source. *)
C16_FlagsFrame ==
  [][event'.op \in StructuredEdits => FrameKept]_vars

----------------------------------------------------------------------------
(* SpecEdits: the structured edits applied one after the other to an
   extracted collection, each followed by its schemaToHTML call, with no
   re-extraction in between (the handlers are called again before the
   effect on htmlCode has run) *)

EditedMarkups == {getDefaultHTML} \cup (TypedMarkups \ {<<>>})

InitEdits ==
  /\ copy \in Copies
  /\ argKind = "value"
  /\ htmlCode \in EditedMarkups
  /\ schema = parseHTMLToSchema(htmlCode)
  /\ captured = <<>>
  /\ doc = EmptyDocument
  /\ reparsed = <<>>
  /\ outcome = "none"
  /\ pc = "editing"
  /\ edits = 0
  /\ fields = <<>>
  /\ event = NoEvent

(* setSchema(updated); setHtmlCode(schemaToHTML(updated)), the effect not
   yet run *)
CommitOnly(updated, ev) ==
  LET r == schemaToHTMLCall(copy, "value", updated)
  IN /\ pc = "editing"
     /\ edits < MaxEdits
     /\ schema' = updated
     /\ htmlCode' = IF r.outcome = "returned" THEN r.value ELSE htmlCode
     /\ outcome' = r.outcome
     /\ edits' = edits + 1
     /\ event' = ev
     /\ UNCHANGED <<copy, argKind, doc, reparsed, pc, captured, fields>>

(* the listener edits an element that holds one text node: a record
   without children; the text it reports differs from the one it found *)
thenUpdateElementText ==
  \E i \in DOMAIN schema : \E newText \in EditTexts :
     /\ schema[i].children = <<>>
     /\ newText # schema[i].text
     /\ CommitOnly(withText(schema, schema[i].id, newText),
                   EventOf("updateElementText", schema[i].id, NameText))

thenHandleFormUpdate ==
  \E i \in DOMAIN schema :
     \/ \E value \in EditTexts :
          CommitOnly(withText(schema, schema[i].id, value),
                     EventOf("handleFormUpdate", schema[i].id, NameText))
     \/ \E value \in ClassInputs :
          CommitOnly(withClasses(schema, schema[i].id, value),
                     EventOf("handleFormUpdate", schema[i].id, NameClasses))
     \/ \E j \in DOMAIN schema[i].attributes : \E value \in AttrInputs :
          CommitOnly(withAttribute(schema, schema[i].id,
                                   schema[i].attributes[j].name, value),
                     EventOf("handleFormUpdate", schema[i].id,
                             AttrPrefix \o schema[i].attributes[j].name))

thenAddRepeatableElement ==
  \E i \in DOMAIN schema :
     /\ schema[i].isRepeatable
     /\ CommitOnly(withClone(schema, schema[i]),
                   EventOf("addRepeatableElement", schema[i].id, <<>>))

thenRemoveElement ==
  \E i \in DOMAIN schema :
     CommitOnly(reindexed(schema, schema[i].id),
                EventOf("removeElement", schema[i].id, <<>>))

NextEdits ==
  \/ thenUpdateElementText
  \/ thenHandleFormUpdate
  \/ thenAddRepeatableElement
  \/ thenRemoveElement

SpecEdits == InitEdits /\ [][NextEdits]_vars

(* a record is reachable from itself through children references *)
Cyclic(elements) ==
  \E k \in DOMAIN elements :
     elements[k].id \in Descendants(elements, elements[k].id, Len(elements))

(* C17: schemaToHTML returns on every collection that structured edits
   without a re-extraction in between make of an extracted collection, and
   no such collection holds a record reachable from itself through children
   references. *)
C17_EditsTerminate ==
  pc = "editing" => (outcome # "threw" /\ ~ Cyclic(schema))
====
